---- MODULE Spec2Model ----
(***************************************************************************)
(* A model of go-turfgame-exporter (src/turfgame_exporter.go).             *)
(*                                                                         *)
(* Three goroutines share the process:                                     *)
(*   main           loads the configuration, starts backgroundJob,         *)
(*                  registers the instruments and serves /metrics;         *)
(*   backgroundJob  checks the roster, builds the request payload, starts  *)
(*                  fetchData and then runs the Publisher loop;            *)
(*   fetchData      the Poller loop: POST, count, read, decode, send,      *)
(*                  sleep.                                                 *)
(* The goroutines interleave at the granularity of the statements that     *)
(* touch shared state: the instruments, the channel ch and the backing     *)
(* array of the slice turfData, which the Publisher's data aliases after   *)
(* a send.                                                                 *)
(***************************************************************************)
EXTENDS Integers, Sequences, FiniteSets, TLC

(***************************************************************************)
(* Bounds of the model.                                                    *)
(***************************************************************************)
\* The number of HTTP calls fetchData may issue in a run of the model.
MaxCycles == 3

(***************************************************************************)
(* Configuration (type Config).  envconfig is an external library: it      *)
(* either fails or fills c.  The model draws c from a small set.           *)
(***************************************************************************)
DefaultEndpoint == "https://api.turfgame.com/v5/users"

Rosters == { <<>>, <<"alice", "bob">> }

PollIntervals == { 0, 300 }

Configs ==
    [ TurfApiEndpoint : {DefaultEndpoint},
      TurfUsers       : Rosters,
      PollIntervalSec : PollIntervals,
      HttpPort        : {"9097"} ]

(***************************************************************************)
(* type User and type Region.  Country, Id and Region.Id are decoded but   *)
(* never read by the program and are left out of the record.               *)
(***************************************************************************)
UserFields ==
    { "Name", "Points", "Zones", "PointsPerHour", "Blocktime", "Taken",
      "TotalPoints", "Rank", "Place", "UniqueZonesTaken", "Medals", "Region" }

\* The zero value of User: what a fresh slice element holds.
ZeroUser ==
    [ Name |-> "", Points |-> 0, Zones |-> <<>>, PointsPerHour |-> 0,
      Blocktime |-> 0, Taken |-> 0, TotalPoints |-> 0, Rank |-> 0,
      Place |-> 0, UniqueZonesTaken |-> 0, Medals |-> <<>>,
      Region |-> [Name |-> ""] ]

(***************************************************************************)
(* JSON documents the API may answer with.  A JSON object is the set of    *)
(* the User fields it has a key for (present) and their values (val);      *)
(* a document is an array of objects, null, a non-array value (such as an  *)
(* error object), or a text that is not JSON (the empty body included).    *)
(***************************************************************************)
AliceStockholm ==
    [ present |-> UserFields,
      val |-> [ Name |-> "alice", Points |-> 500, Zones |-> <<10>>,
                PointsPerHour |-> 12, Blocktime |-> 23, Taken |-> 34,
                TotalPoints |-> 4500, Rank |-> 3, Place |-> 56,
                UniqueZonesTaken |-> 67, Medals |-> <<1, 2>>,
                Region |-> [Name |-> "Stockholm"] ] ]

AliceUppsala ==
    [ present |-> UserFields,
      val |-> [ Name |-> "alice", Points |-> 510, Zones |-> <<10, 11, 12>>,
                PointsPerHour |-> 13, Blocktime |-> 24, Taken |-> 35,
                TotalPoints |-> 4510, Rank |-> 4, Place |-> 57,
                UniqueZonesTaken |-> 68, Medals |-> <<1>>,
                Region |-> [Name |-> "Uppsala"] ] ]

BobStockholm ==
    [ present |-> UserFields,
      val |-> [ Name |-> "bob", Points |-> 300, Zones |-> <<>>,
                PointsPerHour |-> 7, Blocktime |-> 20, Taken |-> 9,
                TotalPoints |-> 800, Rank |-> 7, Place |-> 110,
                UniqueZonesTaken |-> 8, Medals |-> <<5, 6, 7>>,
                Region |-> [Name |-> "Stockholm"] ] ]

\* {"name": "bob", "points": 1}: an object that leaves most keys out.
BobSparse ==
    [ present |-> {"Name", "Points"},
      val |-> [ZeroUser EXCEPT !.Name = "bob", !.Points = 1] ]

JsonArray(objs) == [kind |-> "array", elems |-> objs]
JsonNull == [kind |-> "null", elems |-> <<>>]
JsonObject == [kind |-> "object", elems |-> <<>>]
NotJson == [kind |-> "malformed", elems |-> <<>>]

Bodies ==
    { JsonArray(<<AliceStockholm, BobStockholm>>),
      JsonArray(<<AliceUppsala>>),
      JsonArray(<<BobSparse>>),
      JsonArray(<<>>),
      JsonNull,
      JsonObject,
      NotJson }

Statuses == { 200, 500 }

VARIABLES
    \* ---- process, main
    c,                  \* the Config main loaded
    mainPc,             \* main's position
    registered,         \* prometheus.MustRegister has run for the instruments
    listening,          \* http.ListenAndServe is accepting connections
    exited,             \* the process has terminated
    \* ---- backgroundJob (Publisher)
    pubPc,              \* backgroundJob's position
    users,              \* the request payload: one {"name": u} map per player
    data,               \* the slice received from ch
    idx,                \* the range loop's index into data
    \* ---- fetchData (Poller)
    pollerPc,           \* fetchData's position
    json_body,          \* json.Marshal(users), computed once
    resp,               \* the result of the cycle's client.Post (resp, err)
    body,               \* the bytes io.ReadAll returned
    readErr,            \* whether io.ReadAll returned an error
    err,                \* whether json.Unmarshal returned an error
    turfData,           \* the slice header json.Unmarshal decodes into
    heap,               \* the backing arrays slices point into
    \* ---- instruments
    turfgameApiRequestsTotal,
    requestDurations,
    roundPoints, zonesOwned, pointsPerHour, blocktime, takenZones,
    totalPoints, userRank, place, uniqueZones, medalsTaken, region,
    \* ---- history (not read by any action's guard or effect on the program)
    seen,               \* the records the range loop has read in this pass
    prevSeen,           \* the records it read in the pass before
    prevGauges,         \* the gauges when the pass before ended
    decoded,            \* the batches json.Unmarshal decoded without error
    received,           \* the batches the Publisher received from ch
    processedPairs,     \* the (name, region) pairs of the records the loop read
    requests,           \* the body of every POST issued, in order
    sleeps              \* the duration of every time.Sleep performed, in order

mainVars == <<c, mainPc, registered, listening, exited>>
pubVars == <<pubPc, users, data, idx>>
pollerVars == <<pollerPc, json_body, resp, body, readErr, err, turfData, heap>>
counterVars == <<turfgameApiRequestsTotal, requestDurations>>
gaugeVars ==
    <<roundPoints, zonesOwned, pointsPerHour, blocktime, takenZones,
      totalPoints, userRank, place, uniqueZones, medalsTaken, region>>
histVars ==
    <<seen, prevSeen, prevGauges, decoded, received, processedPairs,
      requests, sleeps>>
vars == <<mainVars, pubVars, pollerVars, counterVars, gaugeVars, histVars>>


(***************************************************************************)
(* Slices.  A slice header names a backing array of the heap (0: none, the *)
(* nil or empty slice), a length and a capacity.  heap[a] is the array's   *)
(* content, cap elements long.  Two headers with the same arr alias.       *)
(***************************************************************************)
ArrIds == { 1, 2 }

NilSlice == [arr |-> 0, len |-> 0, cap |-> 0]

EmptyHeap == [a \in ArrIds |-> <<>>]

\* An array no header in refs points to is garbage: its content is dropped.
Collect(h, refs) ==
    [a \in ArrIds |-> IF \E s \in refs : s.arr = a THEN h[a] ELSE <<>>]

\* The capacity reflect.Value.Grow(1) gives a full slice (append's doubling).
GrowCap(cap) == IF cap = 0 THEN 1 ELSE 2 * cap

Zeros(n) == [k \in 1..n |-> ZeroUser]

(***************************************************************************)
(* json.Unmarshal(body, &turfData), as encoding/json of go 1.22 does it.   *)
(*   - a text that is not JSON fails the syntax check before anything is   *)
(*     stored: turfData keeps the previous cycle's value;                  *)
(*   - a JSON value that is not an array is skipped with a type error:     *)
(*     turfData keeps the previous cycle's value;                          *)
(*   - null sets the slice to nil;                                         *)
(*   - an array is decoded element by element INTO the existing backing    *)
(*     array: element i is merged into slot i (a key the object leaves out *)
(*     keeps the slot's old field), the array is reallocated only when     *)
(*     i reaches the capacity, the length is cut to the number of          *)
(*     elements, and an empty array gives a fresh empty slice.             *)
(***************************************************************************)
\* Decoding one JSON object into an existing User value.
DecodeObject(old, obj) ==
    [f \in UserFields |-> IF f \in obj.present THEN obj.val[f] ELSE old[f]]

\* The slice being decoded into: its length, capacity and the content of its
\* array (mem); whether the array was reallocated (grown) and what the
\* original array held at that moment (oldMem).
RECURSIVE DecodeArray(_, _, _)
DecodeArray(elems, k, s) ==
    IF k > Len(elems) THEN s
    ELSE LET s1 == IF k - 1 >= s.cap
                   THEN [s EXCEPT !.cap = GrowCap(s.cap),
                                  !.mem = s.mem \o Zeros(GrowCap(s.cap) - s.cap),
                                  !.grown = TRUE,
                                  !.oldMem = IF s.grown THEN s.oldMem ELSE s.mem]
                   ELSE s
             s2 == IF k - 1 >= s1.len THEN [s1 EXCEPT !.len = k] ELSE s1
             s3 == [s2 EXCEPT !.mem[k] = DecodeObject(@, elems[k])]
         IN  DecodeArray(elems, k + 1, s3)

\* The result of json.Unmarshal: the new slice header, the new heap and
\* whether an error is returned.  pinned is the Publisher's slice, whose
\* array stays allocated.
Unmarshal(doc, td, h, pinned) ==
    CASE doc.kind \in {"malformed", "object"} ->
            [turfData |-> td, heap |-> h, err |-> TRUE]
      [] doc.kind = "null" ->
            [turfData |-> NilSlice, heap |-> Collect(h, {pinned}), err |-> FALSE]
      [] doc.kind = "array" /\ Len(doc.elems) = 0 ->
            [turfData |-> NilSlice, heap |-> Collect(h, {pinned}), err |-> FALSE]
      [] OTHER ->
            LET s0 == [len |-> td.len, cap |-> td.cap,
                       mem |-> IF td.arr = 0 THEN <<>> ELSE h[td.arr],
                       grown |-> FALSE, oldMem |-> <<>>]
                s  == DecodeArray(doc.elems, 1, s0)
                n  == Len(doc.elems)
                a  == IF s.grown
                      THEN CHOOSE x \in ArrIds : x # pinned.arr
                      ELSE td.arr
                h1 == IF s.grown /\ td.arr # 0
                      THEN [h EXCEPT ![td.arr] = s.oldMem]
                      ELSE h
                h2 == [h1 EXCEPT ![a] = s.mem]
                nt == [arr |-> a, len |-> n, cap |-> s.cap]
            IN  [turfData |-> nt, heap |-> Collect(h2, {pinned, nt}), err |-> FALSE]

\* The elements a slice header denotes.
Elements(s, h) == IF s.arr = 0 THEN <<>> ELSE SubSeq(h[s.arr], 1, s.len)

(***************************************************************************)
(* io.ReadAll(resp.Body).  On an error the bytes read so far are returned: *)
(* a cut-off JSON text is no JSON, unless only trailing white space was    *)
(* lost and the text read is still the whole document.                     *)
(***************************************************************************)
ReadAll(doc, readFails) ==
    IF readFails THEN {NotJson, doc} ELSE {doc}

(***************************************************************************)
(* strconv.Itoa, for the non-negative numbers HTTP status codes are.       *)
(***************************************************************************)
Digit == <<"0", "1", "2", "3", "4", "5", "6", "7", "8", "9">>

RECURSIVE Itoa(_)
Itoa(n) == IF n < 10 THEN Digit[n + 1]
           ELSE Itoa(n \div 10) \o Digit[(n % 10) + 1]

(***************************************************************************)
(* json.Marshal(users): the JSON text of a list of {"name": u} maps.       *)
(***************************************************************************)
RECURSIVE MarshalElems(_, _)
MarshalElems(us, k) ==
    IF k > Len(us) THEN ""
    ELSE (IF k > 1 THEN "," ELSE "")
         \o "{\"name\":\"" \o us[k]["name"] \o "\"}"
         \o MarshalElems(us, k + 1)

\* A nil slice marshals as null, a non-nil one as an array.
Marshal(us) == IF Len(us) = 0 THEN "null" ELSE "[" \o MarshalElems(us, 1) \o "]"

(***************************************************************************)
(* Instruments.  A vector is a function from the label values that have   *)
(* been used to the value of that child; WithLabelValues creates a child   *)
(* at 0 when it is missing.                                                *)
(***************************************************************************)
NoChildren == [l \in {} |-> 0]

Value(vec, l) == IF l \in DOMAIN vec THEN vec[l] ELSE 0

\* float64(n): exact for every integer of magnitude below 2^53, which
\* covers the whole range of integers the model draws.
Float64(n) == n

\* A variant of GaugeSet that adds to the child's value (Add for Set).
GaugeAdd(vec, l, v) ==
    [x \in DOMAIN vec \cup {l} |-> IF x = l THEN Value(vec, l) + v ELSE vec[x]]

\* vec.WithLabelValues(l).Set(v)
GaugeSet(vec, l, v) ==
    [x \in DOMAIN vec \cup {l} |-> IF x = l THEN v ELSE vec[x]]

\* vec.WithLabelValues(l).Inc()
CounterInc(vec, l) ==
    [x \in DOMAIN vec \cup {l} |-> IF x = l THEN Value(vec, l) + 1 ELSE vec[x]]


\* The eleven gauge vectors as one record.
Gauges ==
    [ roundPoints |-> roundPoints, zonesOwned |-> zonesOwned,
      pointsPerHour |-> pointsPerHour, blocktime |-> blocktime,
      takenZones |-> takenZones, totalPoints |-> totalPoints,
      userRank |-> userRank, place |-> place, uniqueZones |-> uniqueZones,
      medalsTaken |-> medalsTaken, region |-> region ]

(***************************************************************************)
(* The initial state: the process has started, main has not run yet.       *)
(***************************************************************************)
\* The values resp, body, readErr and err hold before a cycle assigns them.
NoResp == [err |-> FALSE, StatusCode |-> 0, Body |-> NotJson]

Init ==
    /\ c \in Configs
    /\ mainPc = "load"
    /\ registered = FALSE
    /\ listening = FALSE
    /\ exited = FALSE
    /\ pubPc = "none"
    /\ users = <<>>
    /\ data = NilSlice
    /\ idx = 1
    /\ pollerPc = "none"
    /\ json_body = ""
    /\ resp = NoResp
    /\ body = NotJson
    /\ readErr = FALSE
    /\ err = FALSE
    /\ turfData = NilSlice
    /\ heap = EmptyHeap
    /\ turfgameApiRequestsTotal = NoChildren
    /\ requestDurations = NoChildren
    /\ roundPoints = NoChildren
    /\ zonesOwned = NoChildren
    /\ pointsPerHour = NoChildren
    /\ blocktime = NoChildren
    /\ takenZones = NoChildren
    /\ totalPoints = NoChildren
    /\ userRank = NoChildren
    /\ place = NoChildren
    /\ uniqueZones = NoChildren
    /\ medalsTaken = NoChildren
    /\ region = NoChildren
    /\ seen = <<>>
    /\ prevSeen = <<>>
    /\ prevGauges = Gauges
    /\ decoded = <<>>
    /\ received = <<>>
    /\ processedPairs = {}
    /\ requests = <<>>
    /\ sleeps = <<>>

(***************************************************************************)
(* main                                                                    *)
(***************************************************************************)
\* envconfig.Process succeeds: c is filled.
ProcessConfig ==
    /\ ~exited
    /\ mainPc = "load"
    /\ mainPc' = "go"
    /\ UNCHANGED <<c, registered, listening, exited>>
    /\ UNCHANGED <<pubVars, pollerVars, counterVars, gaugeVars, histVars>>

\* envconfig.Process fails: log.Fatal ends the process.
ProcessConfigFails ==
    /\ ~exited
    /\ mainPc = "load"
    /\ exited' = TRUE
    /\ UNCHANGED <<c, mainPc, registered, listening>>
    /\ UNCHANGED <<pubVars, pollerVars, counterVars, gaugeVars, histVars>>

\* go backgroundJob(c)
GoBackgroundJob ==
    /\ ~exited
    /\ mainPc = "go"
    /\ mainPc' = "register"
    /\ pubPc' = "check"
    /\ UNCHANGED <<c, registered, listening, exited>>
    /\ UNCHANGED <<users, data, idx>>
    /\ UNCHANGED <<pollerVars, counterVars, gaugeVars, histVars>>

\* The thirteen prometheus.MustRegister calls.
MustRegister ==
    /\ ~exited
    /\ mainPc = "register"
    /\ registered' = TRUE
    /\ mainPc' = "listen"
    /\ UNCHANGED <<c, listening, exited>>
    /\ UNCHANGED <<pubVars, pollerVars, counterVars, gaugeVars, histVars>>

\* http.Handle and http.ListenAndServe: the server binds the port and serves.
ListenAndServe ==
    /\ ~exited
    /\ mainPc = "listen"
    /\ listening' = TRUE
    /\ mainPc' = "serve"
    /\ UNCHANGED <<c, registered, exited>>
    /\ UNCHANGED <<pubVars, pollerVars, counterVars, gaugeVars, histVars>>

\* http.ListenAndServe returns an error (the port is taken): main returns,
\* which ends the process.
ListenAndServeFails ==
    /\ ~exited
    /\ mainPc = "listen"
    /\ exited' = TRUE
    /\ UNCHANGED <<c, mainPc, registered, listening>>
    /\ UNCHANGED <<pubVars, pollerVars, counterVars, gaugeVars, histVars>>


(***************************************************************************)
(* backgroundJob: the start-up part and the Publisher loop                 *)
(***************************************************************************)
\* if len(c.TurfUsers) == 0 { log.Fatal(...) }
CheckRoster ==
    /\ ~exited
    /\ pubPc = "check"
    /\ IF Len(c.TurfUsers) = 0
       THEN /\ exited' = TRUE
            /\ pubPc' = pubPc
       ELSE /\ exited' = exited
            /\ pubPc' = "start"
    /\ UNCHANGED <<c, mainPc, registered, listening>>
    /\ UNCHANGED <<users, data, idx>>
    /\ UNCHANGED <<pollerVars, counterVars, gaugeVars, histVars>>

\* A variant of BuildUsers that prepends each player instead of appending.
BuildUsersReversed(roster) ==
    [k \in 1..Len(roster) |-> [name |-> roster[Len(roster) + 1 - k]]]

\* The payload built from the roster: one {"name": u} map per player.
BuildUsers(roster) == [k \in 1..Len(roster) |-> [name |-> roster[k]]]

\* users is built, the channel and the client are made, go fetchData(...).
StartFetchData ==
    /\ ~exited
    /\ pubPc = "start"
    /\ users' = BuildUsers(c.TurfUsers)
    /\ pubPc' = "recv"
    /\ pollerPc' = "marshal"
    /\ UNCHANGED <<data, idx>>
    /\ UNCHANGED <<json_body, resp, body, readErr, err, turfData, heap>>
    /\ UNCHANGED <<mainVars, counterVars, gaugeVars, histVars>>

\* A variant of Publish with the two label values of the region indicator
\* passed in the wrong order.
PublishRegionLabelsSwapped(G, user) ==
    [ roundPoints   |-> GaugeSet(G.roundPoints, user.Name, Float64(user.Points)),
      zonesOwned    |-> GaugeSet(G.zonesOwned, user.Name, Float64(Len(user.Zones))),
      pointsPerHour |-> GaugeSet(G.pointsPerHour, user.Name, Float64(user.PointsPerHour)),
      blocktime     |-> GaugeSet(G.blocktime, user.Name, Float64(user.Blocktime)),
      takenZones    |-> GaugeSet(G.takenZones, user.Name, Float64(user.Taken)),
      totalPoints   |-> GaugeSet(G.totalPoints, user.Name, Float64(user.TotalPoints)),
      userRank      |-> GaugeSet(G.userRank, user.Name, Float64(user.Rank)),
      place         |-> GaugeSet(G.place, user.Name, Float64(user.Place)),
      uniqueZones   |-> GaugeSet(G.uniqueZones, user.Name, Float64(user.UniqueZonesTaken)),
      medalsTaken   |-> GaugeSet(G.medalsTaken, user.Name, Float64(Len(user.Medals))),
      region        |-> GaugeSet(G.region, <<user.Region.Name, user.Name>>, 1) ]

\* A variant of Publish with the sources of zones-owned and taken exchanged.
PublishExchanged(G, user) ==
    [ roundPoints   |-> GaugeSet(G.roundPoints, user.Name, Float64(user.Points)),
      zonesOwned    |-> GaugeSet(G.zonesOwned, user.Name, Float64(user.Taken)),
      pointsPerHour |-> GaugeSet(G.pointsPerHour, user.Name, Float64(user.PointsPerHour)),
      blocktime     |-> GaugeSet(G.blocktime, user.Name, Float64(user.Blocktime)),
      takenZones    |-> GaugeSet(G.takenZones, user.Name, Float64(Len(user.Zones))),
      totalPoints   |-> GaugeSet(G.totalPoints, user.Name, Float64(user.TotalPoints)),
      userRank      |-> GaugeSet(G.userRank, user.Name, Float64(user.Rank)),
      place         |-> GaugeSet(G.place, user.Name, Float64(user.Place)),
      uniqueZones   |-> GaugeSet(G.uniqueZones, user.Name, Float64(user.UniqueZonesTaken)),
      medalsTaken   |-> GaugeSet(G.medalsTaken, user.Name, Float64(Len(user.Medals))),
      region        |-> GaugeSet(G.region, <<user.Name, user.Region.Name>>, 1) ]

\* A variant of Publish that resets every vector before it sets the record's
\* children (Reset, then Set): what other players had is gone.
PublishResetting(G, user) ==
    [ roundPoints   |-> GaugeSet(NoChildren, user.Name, Float64(user.Points)),
      zonesOwned    |-> GaugeSet(NoChildren, user.Name, Float64(Len(user.Zones))),
      pointsPerHour |-> GaugeSet(NoChildren, user.Name, Float64(user.PointsPerHour)),
      blocktime     |-> GaugeSet(NoChildren, user.Name, Float64(user.Blocktime)),
      takenZones    |-> GaugeSet(NoChildren, user.Name, Float64(user.Taken)),
      totalPoints   |-> GaugeSet(NoChildren, user.Name, Float64(user.TotalPoints)),
      userRank      |-> GaugeSet(NoChildren, user.Name, Float64(user.Rank)),
      place         |-> GaugeSet(NoChildren, user.Name, Float64(user.Place)),
      uniqueZones   |-> GaugeSet(NoChildren, user.Name, Float64(user.UniqueZonesTaken)),
      medalsTaken   |-> GaugeSet(NoChildren, user.Name, Float64(Len(user.Medals))),
      region        |-> GaugeSet(NoChildren, <<user.Name, user.Region.Name>>, 1) ]

\* A variant of Publish that deletes the player's children of the region
\* indicator before it sets the current one (DeletePartialMatch, then Set).
PublishDropsOldRegion(G, user) ==
    [ roundPoints   |-> GaugeSet(G.roundPoints, user.Name, Float64(user.Points)),
      zonesOwned    |-> GaugeSet(G.zonesOwned, user.Name, Float64(Len(user.Zones))),
      pointsPerHour |-> GaugeSet(G.pointsPerHour, user.Name, Float64(user.PointsPerHour)),
      blocktime     |-> GaugeSet(G.blocktime, user.Name, Float64(user.Blocktime)),
      takenZones    |-> GaugeSet(G.takenZones, user.Name, Float64(user.Taken)),
      totalPoints   |-> GaugeSet(G.totalPoints, user.Name, Float64(user.TotalPoints)),
      userRank      |-> GaugeSet(G.userRank, user.Name, Float64(user.Rank)),
      place         |-> GaugeSet(G.place, user.Name, Float64(user.Place)),
      uniqueZones   |-> GaugeSet(G.uniqueZones, user.Name, Float64(user.UniqueZonesTaken)),
      medalsTaken   |-> GaugeSet(G.medalsTaken, user.Name, Float64(Len(user.Medals))),
      region        |-> GaugeSet([l \in {m \in DOMAIN G.region : m[1] # user.Name}
                                     |-> G.region[l]],
                                 <<user.Name, user.Region.Name>>, 1) ]

\* A variant of Publish that labels the round-points gauge with the region's
\* name in place of the player's: two players of one region share a child.
PublishByRegion(G, user) ==
    [ roundPoints   |-> GaugeSet(G.roundPoints, user.Region.Name, Float64(user.Points)),
      zonesOwned    |-> GaugeSet(G.zonesOwned, user.Name, Float64(Len(user.Zones))),
      pointsPerHour |-> GaugeSet(G.pointsPerHour, user.Name, Float64(user.PointsPerHour)),
      blocktime     |-> GaugeSet(G.blocktime, user.Name, Float64(user.Blocktime)),
      takenZones    |-> GaugeSet(G.takenZones, user.Name, Float64(user.Taken)),
      totalPoints   |-> GaugeSet(G.totalPoints, user.Name, Float64(user.TotalPoints)),
      userRank      |-> GaugeSet(G.userRank, user.Name, Float64(user.Rank)),
      place         |-> GaugeSet(G.place, user.Name, Float64(user.Place)),
      uniqueZones   |-> GaugeSet(G.uniqueZones, user.Name, Float64(user.UniqueZonesTaken)),
      medalsTaken   |-> GaugeSet(G.medalsTaken, user.Name, Float64(Len(user.Medals))),
      region        |-> GaugeSet(G.region, <<user.Name, user.Region.Name>>, 1) ]

\* One iteration of "for _, user := range data": the eleven Set calls.
Publish(G, user) ==
    [ roundPoints   |-> GaugeSet(G.roundPoints, user.Name, Float64(user.Points)),
      zonesOwned    |-> GaugeSet(G.zonesOwned, user.Name, Float64(Len(user.Zones))),
      pointsPerHour |-> GaugeSet(G.pointsPerHour, user.Name, Float64(user.PointsPerHour)),
      blocktime     |-> GaugeSet(G.blocktime, user.Name, Float64(user.Blocktime)),
      takenZones    |-> GaugeSet(G.takenZones, user.Name, Float64(user.Taken)),
      totalPoints   |-> GaugeSet(G.totalPoints, user.Name, Float64(user.TotalPoints)),
      userRank      |-> GaugeSet(G.userRank, user.Name, Float64(user.Rank)),
      place         |-> GaugeSet(G.place, user.Name, Float64(user.Place)),
      uniqueZones   |-> GaugeSet(G.uniqueZones, user.Name, Float64(user.UniqueZonesTaken)),
      medalsTaken   |-> GaugeSet(G.medalsTaken, user.Name, Float64(Len(user.Medals))),
      region        |-> GaugeSet(G.region, <<user.Name, user.Region.Name>>, 1) ]

\* The loop body for data[idx].  user is a copy of the element as the
\* backing array holds it now; the range expression was evaluated at the
\* receive, so the number of iterations is data.len.
PublishUser ==
    /\ ~exited
    /\ pubPc = "loop"
    /\ LET user == heap[data.arr][idx]
           g    == Publish(Gauges, user)
       IN  /\ roundPoints' = g.roundPoints
           /\ zonesOwned' = g.zonesOwned
           /\ pointsPerHour' = g.pointsPerHour
           /\ blocktime' = g.blocktime
           /\ takenZones' = g.takenZones
           /\ totalPoints' = g.totalPoints
           /\ userRank' = g.userRank
           /\ place' = g.place
           /\ uniqueZones' = g.uniqueZones
           /\ medalsTaken' = g.medalsTaken
           /\ region' = g.region
           /\ seen' = Append(seen, user)
           /\ processedPairs' =
                 processedPairs \cup {<<user.Name, user.Region.Name>>}
    /\ IF idx = data.len
       THEN /\ pubPc' = "recv"
            /\ idx' = 1
       ELSE /\ pubPc' = "loop"
            /\ idx' = idx + 1
    /\ UNCHANGED <<users, data>>
    /\ UNCHANGED <<prevSeen, prevGauges, decoded, received, requests, sleeps>>
    /\ UNCHANGED <<mainVars, pollerVars, counterVars>>

(***************************************************************************)
(* fetchData: the Poller loop                                              *)
(***************************************************************************)
\* json_body, _ := json.Marshal(users); var turfData []User
MarshalBody ==
    /\ ~exited
    /\ pollerPc = "marshal"
    /\ json_body' = Marshal(users)
    /\ pollerPc' = "post"
    /\ UNCHANGED <<resp, body, readErr, err, turfData, heap>>
    /\ UNCHANGED <<mainVars, pubVars, counterVars, gaugeVars, histVars>>

\* What client.Post may return: an error, or a response with any status
\* and any body.
TransportError == [err |-> TRUE, StatusCode |-> 0, Body |-> NotJson]

PostResults ==
    {TransportError} \cup [err : {FALSE}, StatusCode : Statuses, Body : Bodies]

\* A variant of RequestLabel that tells only success from failure.
RequestLabelOkError(r) == IF r.err THEN "error" ELSE "ok"

\* The label the request counter is incremented under.
RequestLabel(r) == IF r.err THEN "error" ELSE Itoa(r.StatusCode)

\* A variant of AfterPost without the else: a failed call falls through to
\* the read and the decode.
AfterPostFallsThrough(r) == "read"

\* A variant of AfterPost that skips the body of a response that is not 200.
AfterPostOnly200(r) == IF r.err \/ r.StatusCode # 200 THEN "sleep" ELSE "read"

\* A variant of AfterPost with a continue in the error branch: a failed call
\* is tried again at once, without the sleep.
AfterPostContinue(r) == IF r.err THEN "post" ELSE "read"

\* Where the loop goes after the call: the else branch reads and decodes.
AfterPost(r) == IF r.err THEN "sleep" ELSE "read"

\* A variant of PostFrom whose error branch resets the round-points gauge
\* (roundPoints.Reset() next to the counter's Inc).
PostFromResetting(results) ==
    /\ ~exited
    /\ pollerPc = "post"
    /\ Value(requestDurations, c.TurfApiEndpoint) < MaxCycles
    /\ \E r \in results :
          /\ resp' = r
          /\ turfgameApiRequestsTotal' =
                CounterInc(turfgameApiRequestsTotal, RequestLabel(r))
          /\ pollerPc' = AfterPost(r)
          /\ roundPoints' = IF r.err THEN NoChildren ELSE roundPoints
    /\ requestDurations' = CounterInc(requestDurations, c.TurfApiEndpoint)
    /\ requests' = Append(requests, json_body)
    /\ UNCHANGED <<json_body, body, readErr, err, turfData, heap>>
    /\ UNCHANGED <<seen, prevSeen, prevGauges, decoded, received,
                   processedPairs, sleeps>>
    /\ UNCHANGED <<mainVars, pubVars>>
    /\ UNCHANGED <<zonesOwned, pointsPerHour, blocktime, takenZones,
                   totalPoints, userRank, place, uniqueZones, medalsTaken,
                   region>>

\* A variant of PostFrom that observes the duration in the else branch only:
\* a failed call leaves the histogram as it was.
PostFromObserveOnSuccess(results) ==
    /\ ~exited
    /\ pollerPc = "post"
    /\ Len(requests) < MaxCycles
    /\ \E r \in results :
          /\ resp' = r
          /\ turfgameApiRequestsTotal' =
                CounterInc(turfgameApiRequestsTotal, RequestLabel(r))
          /\ pollerPc' = AfterPost(r)
          /\ requestDurations' =
                IF r.err THEN requestDurations
                ELSE CounterInc(requestDurations, c.TurfApiEndpoint)
    /\ requests' = Append(requests, json_body)
    /\ UNCHANGED <<json_body, body, readErr, err, turfData, heap>>
    /\ UNCHANGED <<seen, prevSeen, prevGauges, decoded, received,
                   processedPairs, sleeps>>
    /\ UNCHANGED <<mainVars, pubVars, gaugeVars>>

\* client.Post, the duration observation and the request counter; results
\* is the set of answers the endpoint may give.
PostFrom(results) ==
    /\ ~exited
    /\ pollerPc = "post"
    /\ Value(requestDurations, c.TurfApiEndpoint) < MaxCycles
    /\ \E r \in results :
          /\ resp' = r
          /\ turfgameApiRequestsTotal' =
                CounterInc(turfgameApiRequestsTotal, RequestLabel(r))
          /\ pollerPc' = AfterPost(r)
    /\ requestDurations' = CounterInc(requestDurations, c.TurfApiEndpoint)
    /\ requests' = Append(requests, json_body)
    /\ UNCHANGED <<json_body, body, readErr, err, turfData, heap>>
    /\ UNCHANGED <<seen, prevSeen, prevGauges, decoded, received,
                   processedPairs, sleeps>>
    /\ UNCHANGED <<mainVars, pubVars, gaugeVars>>

Post == PostFrom(PostResults)

\* A variant of AfterDecode that returns from fetchData on a decode error.
AfterDecodeReturns(rdErr, decErr) == IF decErr THEN "returned" ELSE "send"

\* Where the loop goes after io.ReadAll and json.Unmarshal: both errors are
\* logged and the send follows.
AfterDecode(rdErr, decErr) == "send"

\* io.ReadAll and json.Unmarshal(body, &turfData).
ReadAndDecode ==
    /\ ~exited
    /\ pollerPc = "read"
    /\ \E fails \in BOOLEAN :
         \E b \in ReadAll(resp.Body, fails) :
            LET u == Unmarshal(b, turfData, heap, data)
            IN  /\ body' = b
                /\ readErr' = fails
                /\ err' = u.err
                /\ turfData' = u.turfData
                /\ heap' = u.heap
                /\ pollerPc' = AfterDecode(fails, u.err)
                /\ decoded' = IF u.err THEN decoded
                              ELSE Append(decoded, Elements(u.turfData, u.heap))
    /\ UNCHANGED <<json_body, resp>>
    /\ UNCHANGED <<seen, prevSeen, prevGauges, received, processedPairs,
                   requests, sleeps>>
    /\ UNCHANGED <<mainVars, pubVars, counterVars, gaugeVars>>

\* A variant of Handoff with a send that does not wait (a select with a
\* default branch): the batch is dropped when the Publisher is not receiving.
HandoffNonBlocking ==
    /\ ~exited
    /\ pollerPc = "send"
    /\ pollerPc' = "sleep"
    /\ IF pubPc = "recv"
       THEN /\ data' = turfData
            /\ idx' = 1
            /\ pubPc' = IF turfData.len = 0 THEN "recv" ELSE "loop"
            /\ heap' = Collect(heap, {turfData})
            /\ received' = Append(received, Elements(turfData, heap))
            /\ prevSeen' = seen
            /\ prevGauges' = Gauges
            /\ seen' = <<>>
       ELSE UNCHANGED <<data, idx, pubPc, heap, received, prevSeen,
                        prevGauges, seen>>
    /\ UNCHANGED <<users, decoded, processedPairs, requests, sleeps>>
    /\ UNCHANGED <<json_body, resp, body, readErr, err, turfData>>
    /\ UNCHANGED <<mainVars, counterVars, gaugeVars>>

\* ch <- turfData meets data := <-ch: the channel has no buffer, so the send
\* and the receive are one step.  data aliases turfData's backing array.
Handoff ==
    /\ ~exited
    /\ pollerPc = "send"
    /\ pubPc = "recv"
    /\ data' = turfData
    /\ idx' = 1
    /\ pubPc' = IF turfData.len = 0 THEN "recv" ELSE "loop"
    /\ pollerPc' = "sleep"
    /\ heap' = Collect(heap, {turfData})
    /\ received' = Append(received, Elements(turfData, heap))
    /\ prevSeen' = seen
    /\ prevGauges' = Gauges
    /\ seen' = <<>>
    /\ UNCHANGED <<users, decoded, processedPairs, requests, sleeps>>
    /\ UNCHANGED <<json_body, resp, body, readErr, err, turfData>>
    /\ UNCHANGED <<mainVars, counterVars, gaugeVars>>

\* time.Duration(c.PollIntervalSec) * time.Second, in seconds.
SleepDuration(cfg) == cfg.PollIntervalSec

\* time.Sleep(PollIntervalSec seconds); the iteration's locals end here.
Sleep ==
    /\ ~exited
    /\ pollerPc = "sleep"
    /\ pollerPc' = "post"
    /\ resp' = NoResp
    /\ body' = NotJson
    /\ readErr' = FALSE
    /\ err' = FALSE
    /\ sleeps' = Append(sleeps, SleepDuration(c))
    /\ UNCHANGED <<json_body, turfData, heap>>
    /\ UNCHANGED <<seen, prevSeen, prevGauges, decoded, received,
                   processedPairs, requests>>
    /\ UNCHANGED <<mainVars, pubVars, counterVars, gaugeVars>>

Next ==
    \/ ProcessConfig
    \/ ProcessConfigFails
    \/ GoBackgroundJob
    \/ MustRegister
    \/ ListenAndServe
    \/ ListenAndServeFails
    \/ CheckRoster
    \/ StartFetchData
    \/ PublishUser
    \/ MarshalBody
    \/ Post
    \/ ReadAndDecode
    \/ Handoff
    \/ Sleep

Spec == Init /\ [][Next]_vars

TypeOK ==
    /\ mainPc \in {"load", "go", "register", "listen", "serve"}
    /\ pubPc \in {"none", "check", "start", "recv", "loop"}
    /\ pollerPc \in {"none", "marshal", "post", "read", "send", "sleep"}
    /\ data.arr \in ArrIds \cup {0}
    /\ turfData.arr \in ArrIds \cup {0}
    /\ pubPc = "loop" => idx \in 1..data.len /\ data.len <= Len(heap[data.arr])
    /\ turfData.arr # 0 => Len(heap[turfData.arr]) = turfData.cap


(***************************************************************************)
(* Fair scheduling: the Go scheduler runs every runnable goroutine, the    *)
(* HTTP client returns within its 10 s timeout, time.Sleep returns, and a  *)
(* send and a receive that are both ready meet.                            *)
(***************************************************************************)
\* For the progress properties the endpoint answers from a smaller set, one
\* answer for each way a cycle can go: the call fails, the body is no JSON,
\* the body decodes (and io.ReadAll may fail on either body).
LiveResults ==
    { TransportError,
      [err |-> FALSE, StatusCode |-> 200,
       Body |-> JsonArray(<<AliceStockholm, BobStockholm>>)],
      [err |-> FALSE, StatusCode |-> 500, Body |-> NotJson] }

PostLive == PostFrom(LiveResults)

\* The steps of the fetchData goroutine and of the backgroundJob goroutine;
\* the rendezvous on ch is a step of both.
PollerNextLive == MarshalBody \/ PostLive \/ ReadAndDecode \/ Handoff \/ Sleep

PublisherNext == CheckRoster \/ StartFetchData \/ Handoff \/ PublishUser

NextLive ==
    \/ ProcessConfig
    \/ ProcessConfigFails
    \/ GoBackgroundJob
    \/ MustRegister
    \/ ListenAndServe
    \/ ListenAndServeFails
    \/ CheckRoster
    \/ StartFetchData
    \/ PublishUser
    \/ MarshalBody
    \/ PostLive
    \/ ReadAndDecode
    \/ Handoff
    \/ Sleep

FairSpec ==
    /\ Init
    /\ [][NextLive]_vars
    /\ WF_vars(PollerNextLive)
    /\ WF_vars(PublisherNext)

(***************************************************************************)
(* Vocabulary of the properties.                                           *)
(***************************************************************************)
\* The number of HTTP calls made so far.
Posts == Value(requestDurations, c.TurfApiEndpoint)

\* The step in which client.Post returns.
PostStep == pollerPc = "post" /\ pollerPc' # "post"

\* The step in which the send on ch completes.
SendStep == pollerPc = "send" /\ pollerPc' # "send"

\* The step in which the body is read and decoded.
DecodeStep == pollerPc = "read" /\ pollerPc' # "read"

\* The request counter changes under label l by one and under no other label.
OnlyIncrements(l) ==
    /\ Value(turfgameApiRequestsTotal', l) = Value(turfgameApiRequestsTotal, l) + 1
    /\ \A m \in (DOMAIN turfgameApiRequestsTotal \cup DOMAIN turfgameApiRequestsTotal') \ {l} :
          Value(turfgameApiRequestsTotal', m) = Value(turfgameApiRequestsTotal, m)

\* The decimal strings of the status codes, written out.
DecimalString == (200 :> "200") @@ (500 :> "500")

DistinctNames(s) ==
    \A i, j \in 1..Len(s) : i # j => s[i].Name # s[j].Name

IsPrefix(s, t) == Len(s) <= Len(t) /\ SubSeq(t, 1, Len(s)) = s

(***************************************************************************)
(* C1.  When the body of a cycle fails to decode, fetchData sends no batch *)
(* on the channel in that cycle: the send never completes in a cycle whose *)
(* json.Unmarshal returned an error.                                       *)
(***************************************************************************)
C1_NoSendAfterDecodeError == [][SendStep => ~err]_vars

(***************************************************************************)
(* C2.  When client.Post fails, the request counter rises by exactly 1     *)
(* under "error" and under no other label, the loop goes straight to the   *)
(* sleep, the step changes no gauge and hands nothing to the Publisher,    *)
(* and no send completes in a cycle whose call failed; a gauge changes     *)
(* only in the Publisher loop, which only a completed send starts, so the  *)
(* failed cycle changes no gauge.                                          *)
(***************************************************************************)
C2_TransportError ==
    /\ [][(PostStep /\ resp'.err) =>
             /\ OnlyIncrements("error")
             /\ pollerPc' = "sleep"
             /\ Gauges' = Gauges
             /\ data' = data
             /\ received' = received]_vars
    /\ [][SendStep => ~resp.err]_vars
    /\ [][(Gauges' # Gauges \/ pubPc' = "loop") =>
             (pubPc = "loop" \/ SendStep)]_vars

\* A failed call after a batch was published: the gauges are set, the error
\* is counted once and the Poller sleeps without having sent.
C2_Witness ==
    /\ pollerPc = "sleep"
    /\ resp.err
    /\ Value(turfgameApiRequestsTotal, "error") = 1
    /\ Len(received) = 1
    /\ "alice" \in DOMAIN roundPoints

(***************************************************************************)
(* C3.  When io.ReadAll fails in a cycle, fetchData sends no batch on the  *)
(* channel in that cycle.                                                  *)
(***************************************************************************)
C3_NoSendAfterReadError == [][SendStep => ~readErr]_vars

(***************************************************************************)
(* C4.  The batches the Publisher receives are exactly the batches that    *)
(* were decoded without error, once each and in order: the received        *)
(* batches are a prefix of the decoded ones, at most one behind.           *)
(***************************************************************************)
C4_ReceivedAreDecoded ==
    /\ IsPrefix(received, decoded)
    /\ Len(decoded) <= Len(received) + 1

(***************************************************************************)
(* C5.  When the Publisher loop has finished a batch whose records have    *)
(* distinct names, each of the ten per-player gauges under a record's name *)
(* equals that record's field (the lengths of the zones and medals lists   *)
(* for zones-owned and medals-taken).  The records are the values the loop *)
(* read from data.                                                         *)
(***************************************************************************)
C5_GaugesEqualFields ==
    (pubPc = "recv" /\ DistinctNames(seen)) =>
        \A k \in 1..Len(seen) :
            LET r == seen[k] IN
            /\ Value(roundPoints, r.Name) = r.Points
            /\ Value(pointsPerHour, r.Name) = r.PointsPerHour
            /\ Value(blocktime, r.Name) = r.Blocktime
            /\ Value(takenZones, r.Name) = r.Taken
            /\ Value(totalPoints, r.Name) = r.TotalPoints
            /\ Value(userRank, r.Name) = r.Rank
            /\ Value(place, r.Name) = r.Place
            /\ Value(uniqueZones, r.Name) = r.UniqueZonesTaken
            /\ Value(zonesOwned, r.Name) = Len(r.Zones)
            /\ Value(medalsTaken, r.Name) = Len(r.Medals)
            /\ \A v \in {roundPoints, pointsPerHour, blocktime, takenZones,
                         totalPoints, userRank, place, uniqueZones,
                         zonesOwned, medalsTaken} : r.Name \in DOMAIN v

\* A batch of two players has been processed.
C5_Witness ==
    /\ pubPc = "recv"
    /\ Len(seen) = 2
    /\ DistinctNames(seen)
    /\ seen[1].Points = 500
    /\ seen[2].Name = "bob"

(***************************************************************************)
(* C6.  With an empty roster the process ends before the metrics server    *)
(* listens and before any request is made: in no reachable state is the    *)
(* roster empty and the server listening or a request counted.             *)
(***************************************************************************)
C6_EmptyRosterNeverServes ==
    Len(c.TurfUsers) = 0 => (~listening /\ Posts = 0 /\ pollerPc = "none")

(***************************************************************************)
(* C7.  Under fair scheduling, and unless the process ends, every pending  *)
(* send on the channel is received, and whatever a cycle's outcome the     *)
(* Poller issues a further request (up to the MaxCycles requests of the    *)
(* model).                                                                 *)
(***************************************************************************)
C7_PollerProgress ==
    /\ (pollerPc = "send") ~> (pollerPc = "sleep" \/ exited)
    /\ (pollerPc # "none" /\ Posts < MaxCycles) ~> (pollerPc = "read" \/ pollerPc = "sleep" \/ exited)
    /\ (pollerPc # "none") ~> (Posts = MaxCycles \/ exited)

\* After a failed call and a failed decode the Poller has issued every
\* request and its sends were received.
C7_Witness ==
    /\ Posts = MaxCycles
    /\ pollerPc = "sleep"
    /\ err
    /\ Value(turfgameApiRequestsTotal, "error") >= 1
    /\ Len(received) >= 1

(***************************************************************************)
(* C8.  When client.Post returns a response, the request counter rises by  *)
(* exactly 1 under the decimal string of the status code and is unchanged  *)
(* under every other label, "error" included; every call changes exactly   *)
(* one label by exactly 1.                                                 *)
(***************************************************************************)
C8_StatusCounted ==
    /\ [][(PostStep /\ ~resp'.err) =>
             OnlyIncrements(DecimalString[resp'.StatusCode])]_vars
    /\ [][PostStep =>
             \E l \in DOMAIN turfgameApiRequestsTotal' : OnlyIncrements(l)]_vars

\* One response with status 500 and one with status 200 have been counted.
C8_Witness ==
    /\ Value(turfgameApiRequestsTotal, "500") = 1
    /\ Value(turfgameApiRequestsTotal, "200") = 1
    /\ Value(turfgameApiRequestsTotal, "error") = 0

(***************************************************************************)
(* C9.  A response whose status is not 200 is counted under its status,    *)
(* its body is read and decoded, and the decoded batch is sent to the      *)
(* Publisher: the status code never suppresses the publish step.           *)
(***************************************************************************)
C9_Non200StillPublished ==
    /\ [][(PostStep /\ ~resp'.err /\ resp'.StatusCode # 200) =>
             /\ OnlyIncrements(DecimalString[resp'.StatusCode])
             /\ pollerPc' = "read"]_vars
    /\ [][(DecodeStep /\ resp.StatusCode # 200) =>
             /\ pollerPc' = "send"
             /\ body' \in ReadAll(resp.Body, readErr')
             /\ (body'.kind = "array" =>
                    /\ ~err'
                    /\ turfData'.len = Len(body'.elems)
                    /\ decoded' = Append(decoded, Elements(turfData', heap')))]_vars
    /\ [][(SendStep /\ resp.StatusCode # 200) =>
             /\ data' = turfData
             /\ received' = Append(received, Elements(turfData, heap))
             /\ (turfData.len > 0 => pubPc' = "loop")]_vars

\* The batch of a status-500 response has been handed to the Publisher.
C9_Witness ==
    /\ pollerPc = "sleep"
    /\ ~resp.err
    /\ resp.StatusCode = 500
    /\ ~err
    /\ Posts = 1
    /\ data.len = 2
    /\ Len(received) = 1
    /\ "bob" \in DOMAIN roundPoints

(***************************************************************************)
(* C10.  When the Publisher loop has processed the same records in two     *)
(* passes in a row, every gauge (the ten per-player gauges and the region  *)
(* indicator) has the value it had after the first of the two passes.      *)
(***************************************************************************)
C10_PublishIdempotent ==
    (pubPc = "recv" /\ seen = prevSeen) => Gauges = prevGauges

\* The same two records were processed twice in a row.
C10_Witness ==
    /\ pubPc = "recv"
    /\ seen = prevSeen
    /\ Len(seen) = 2
    /\ Len(received) = 2


(***************************************************************************)
(* C11.  In every reachable state every child of the region indicator has  *)
(* the value 1, and every (player name, region name) pair of a record the  *)
(* Publisher loop has processed is a child of it with the value 1.         *)
(***************************************************************************)
C11_RegionIndicatorIsOne ==
    /\ \A l \in DOMAIN region : region[l] = 1
    /\ \A p \in processedPairs : p \in DOMAIN region /\ region[p] = 1

\* Records of two players in Stockholm and of alice in Uppsala were processed.
C11_Witness ==
    /\ <<"alice", "Stockholm">> \in processedPairs
    /\ <<"bob", "Stockholm">> \in processedPairs
    /\ <<"alice", "Uppsala">> \in processedPairs
    /\ Cardinality(DOMAIN region) >= 3

(***************************************************************************)
(* C12.  The body of every POST is the same text: the JSON array with one  *)
(* {"name": <player>} object per configured player, in roster order and as *)
(* long as the roster.                                                     *)
(***************************************************************************)
\* The expected text, written out for the rosters of the model.
ExpectedBody(roster) ==
    CASE roster = <<"alice", "bob">> -> "[{\"name\":\"alice\"},{\"name\":\"bob\"}]"
      [] OTHER -> "null"

C12_RequestBodyFixed ==
    /\ \A k \in 1..Len(requests) : requests[k] = ExpectedBody(c.TurfUsers)
    /\ pollerPc # "none" =>
          /\ Len(users) = Len(c.TurfUsers)
          /\ \A k \in 1..Len(users) : users[k] = [name |-> c.TurfUsers[k]]
    /\ pollerPc \notin {"none", "marshal"} => json_body = ExpectedBody(c.TurfUsers)

\* Every request of the run has been issued, after failed and good cycles.
C12_Witness ==
    /\ Len(requests) = MaxCycles
    /\ Len(c.TurfUsers) = 2
    /\ Value(turfgameApiRequestsTotal, "error") >= 1
    /\ Len(received) >= 1


(***************************************************************************)
(* C13.  The channel is a rendezvous: the Poller is past its send (asleep  *)
(* or at the next request) only when the Publisher has received every      *)
(* batch sent so far, at most one batch is waiting, and what was delivered *)
(* last is the one slice the Poller holds, not two cycles' batches joined. *)
(***************************************************************************)
\* The number of cycles in which a response arrived: each of them sends.
Responses == Posts - Value(turfgameApiRequestsTotal, "error")

C13_Rendezvous ==
    /\ pollerPc \in {"sleep", "post"} => Len(received) = Responses
    /\ pollerPc \in {"read", "send"} => Len(received) = Responses - 1
    /\ (pollerPc \in {"sleep", "post"} /\ Len(received) > 0) =>
          received[Len(received)] = Elements(turfData, heap)
    /\ (pollerPc = "send" /\ ~err) =>
          Elements(turfData, heap) = decoded[Len(decoded)]

\* The Poller waits at its second send while the Publisher is still in the
\* loop over the first batch.
C13_Witness ==
    /\ pollerPc = "send"
    /\ pubPc = "loop"
    /\ Responses = 2
    /\ Len(received) = 1

(***************************************************************************)
(* C14.  While the Publisher iterates over a batch, no decode of the       *)
(* Poller changes the records of that batch: a decode step taken while the *)
(* Publisher is in its loop leaves the elements of data as they were.      *)
(***************************************************************************)
C14_BatchNotModified ==
    [][(pubPc = "loop" /\ DecodeStep) =>
          Elements(data, heap') = Elements(data, heap)]_vars

(***************************************************************************)
(* The Publisher's loop over one batch, on its own.  The batch is any list *)
(* of up to MaxBatch records the API may send (a name may occur twice, and *)
(* a player outside the roster may occur); the gauges hold nothing or what *)
(* an earlier batch left.  The state is the one right after the receive:   *)
(* the first cycle answered 200 and the Poller sleeps.                     *)
(***************************************************************************)
MaxBatch == 3

\* {"name": "carol", ...}: a player from outside the roster.
CarolUppsala ==
    [ present |-> UserFields,
      val |-> [ Name |-> "carol", Points |-> 40, Zones |-> <<3, 4>>,
                PointsPerHour |-> 2, Blocktime |-> 21, Taken |-> 5,
                TotalPoints |-> 90, Rank |-> 1, Place |-> 900,
                UniqueZonesTaken |-> 4, Medals |-> <<>>,
                Region |-> [Name |-> "Uppsala"] ] ]

SampleUsers ==
    { DecodeObject(ZeroUser, o) :
        o \in {AliceStockholm, AliceUppsala, BobStockholm, BobSparse,
               CarolUppsala} }

Batches == UNION { [1..n -> SampleUsers] : n \in 1..MaxBatch }

\* for _, user := range data { ... }: the loop body for each record in turn.
RECURSIVE PublishAll(_, _)
PublishAll(G, s) ==
    IF s = <<>> THEN G ELSE PublishAll(Publish(G, Head(s)), Tail(s))

EmptyGauges ==
    [ roundPoints |-> NoChildren, zonesOwned |-> NoChildren,
      pointsPerHour |-> NoChildren, blocktime |-> NoChildren,
      takenZones |-> NoChildren, totalPoints |-> NoChildren,
      userRank |-> NoChildren, place |-> NoChildren,
      uniqueZones |-> NoChildren, medalsTaken |-> NoChildren,
      region |-> NoChildren ]

PermInit ==
    \E batch \in Batches, earlier \in {<<>>, <<DecodeObject(ZeroUser, BobStockholm)>>} :
      LET G == PublishAll(EmptyGauges, earlier)
      IN  /\ c \in { cfg \in Configs : /\ cfg.TurfUsers = <<"alice", "bob">>
                                       /\ cfg.PollIntervalSec = 300 }
          /\ mainPc = "serve"
          /\ registered = TRUE
          /\ listening = TRUE
          /\ exited = FALSE
          /\ pubPc = "loop"
          /\ users = <<[name |-> "alice"], [name |-> "bob"]>>
          /\ data = [arr |-> 1, len |-> Len(batch), cap |-> Len(batch)]
          /\ idx = 1
          /\ pollerPc = "sleep"
          /\ json_body = Marshal(users)
          /\ resp = [err |-> FALSE, StatusCode |-> 200, Body |-> NotJson]
          /\ body = NotJson
          /\ readErr = FALSE
          /\ err = FALSE
          /\ turfData = data
          /\ heap = [EmptyHeap EXCEPT ![1] = batch]
          /\ turfgameApiRequestsTotal = ("200" :> 1)
          /\ requestDurations = (DefaultEndpoint :> 1)
          /\ roundPoints = G.roundPoints
          /\ zonesOwned = G.zonesOwned
          /\ pointsPerHour = G.pointsPerHour
          /\ blocktime = G.blocktime
          /\ takenZones = G.takenZones
          /\ totalPoints = G.totalPoints
          /\ userRank = G.userRank
          /\ place = G.place
          /\ uniqueZones = G.uniqueZones
          /\ medalsTaken = G.medalsTaken
          /\ region = G.region
          /\ seen = <<>>
          /\ prevSeen = earlier
          /\ prevGauges = G
          /\ decoded = <<batch>>
          /\ received = <<batch>>
          /\ processedPairs = { <<earlier[k].Name, earlier[k].Region.Name>> :
                                  k \in 1..Len(earlier) }
          /\ requests = <<json_body>>
          /\ sleeps = <<>>

PermNext == PublishUser

PermSpec == PermInit /\ [][PermNext]_vars

\* The orders the records of s can be listed in.
Perms(s) ==
    { [k \in 1..Len(s) |-> s[f[k]]] :
        f \in { g \in [1..Len(s) -> 1..Len(s)] :
                  \A i, j \in 1..Len(s) : i # j => g[i] # g[j] } }

(***************************************************************************)
(* C15.  The gauge state after a pass over a batch is the same for every   *)
(* permutation of its records.  As stated, for every batch: when the pass  *)
(* is over, publishing the records read in any other order onto the gauges *)
(* as they were before the pass gives the gauges as they are now.          *)
(***************************************************************************)
C15_OrderIrrelevant ==
    (pubPc = "recv" /\ Len(seen) > 0) =>
        \A p \in Perms(seen) : PublishAll(prevGauges, p) = Gauges

\* C15 as the code has it: the order has no effect when no two records of
\* the batch carry the same player name (of two records with one name the
\* later one wins).
C15_OrderIrrelevantDistinctNames ==
    (pubPc = "recv" /\ Len(seen) > 0 /\ DistinctNames(seen)) =>
        \A p \in Perms(seen) : PublishAll(prevGauges, p) = Gauges

\* A pass over three records with three names is over, on gauges an earlier
\* batch had filled.
C15_Witness ==
    /\ pubPc = "recv"
    /\ Len(seen) = 3
    /\ DistinctNames(seen)
    /\ seen[1].Name = "carol"
    /\ seen[3].Name = "alice"
    /\ Len(prevSeen) = 1

(***************************************************************************)
(* C16.  Entries of the region indicator are never removed: every step     *)
(* keeps each (player, region) child there is, with its value, and every   *)
(* pair that has been set is present with 1 after the step; so a player    *)
(* who changed region has the old and the new entry, both at 1.            *)
(***************************************************************************)
C16_RegionEntriesStay ==
    [][ /\ \A l \in DOMAIN region :
              l \in DOMAIN region' /\ region'[l] = region[l]
        /\ \A p \in processedPairs' :
              p \in DOMAIN region' /\ region'[p] = 1 ]_vars

\* alice was published in Stockholm by one batch and in Uppsala by a later
\* one: both entries are there.
C16_Witness ==
    /\ pubPc = "recv"
    /\ Len(received) >= 2
    /\ <<"alice", "Stockholm">> \in DOMAIN region
    /\ <<"alice", "Uppsala">> \in DOMAIN region
    /\ region[<<"alice", "Stockholm">>] = 1
    /\ region[<<"alice", "Uppsala">>] = 1
    /\ seen[Len(seen)].Region.Name = "Uppsala"

(***************************************************************************)
(* C17.  One POST per cycle and one sleep of the configured interval       *)
(* between consecutive POSTs, after a failed cycle as after a successful   *)
(* one: when the Poller is about to post it has slept once for each        *)
(* request made, inside a cycle it has made one request more than it has   *)
(* slept, and every sleep lasted the configured interval.                  *)
(***************************************************************************)
C17_OnePostOneSleep ==
    /\ pollerPc = "post" => Len(sleeps) = Len(requests)
    /\ pollerPc \in {"read", "send", "sleep"} => Len(requests) = Len(sleeps) + 1
    /\ pollerPc \in {"none", "marshal"} => Len(requests) = 0 /\ Len(sleeps) = 0
    /\ \A k \in 1..Len(sleeps) : sleeps[k] = c.PollIntervalSec

\* The Poller is about to make its third request: it has slept after a
\* failed call and after an answered one.
C17_Witness ==
    /\ pollerPc = "post"
    /\ Len(requests) = 2
    /\ Len(sleeps) = 2
    /\ Value(turfgameApiRequestsTotal, "error") = 1
    /\ Len(received) = 1

(***************************************************************************)
(* C18.  No instrument is written by both tasks: a step of fetchData       *)
(* leaves every gauge unchanged, a step of the Publisher loop leaves the   *)
(* request counter and the duration histogram unchanged, the gauges change *)
(* only in a step of the Publisher's loop body and the counter and the     *)
(* histogram only in the step that makes the request.                      *)
(***************************************************************************)
C18_SeparateWriters ==
    [][ /\ (pollerPc # "none" /\ pollerPc' # pollerPc) =>
              gaugeVars' = gaugeVars
        /\ (pubPc \in {"recv", "loop"} /\ <<pubPc, idx, data>>' # <<pubPc, idx, data>>) =>
              counterVars' = counterVars
        /\ gaugeVars' # gaugeVars => (pubPc = "loop" /\ pollerPc' = pollerPc)
        /\ counterVars' # counterVars => (pollerPc = "post" /\ pubVars' = pubVars)
      ]_vars

\* Both tasks are at work: the Publisher is inside a batch with the first
\* record published, and fetchData has counted a failed call and a second
\* response.
C18_Witness ==
    /\ pubPc = "loop"
    /\ idx = 2
    /\ Len(seen) = 1
    /\ pollerPc = "read"
    /\ Value(turfgameApiRequestsTotal, "error") = 1
    /\ Posts = 3

(***************************************************************************)
(* C19.  Every call records one duration observation under the endpoint's  *)
(* label, a failed call too: whenever the Poller sleeps, the observations  *)
(* number as many as the request counter sums to over all its labels, and  *)
(* as many as the cycles run so far; the histogram has no other label.     *)
(***************************************************************************)
\* The sum of the values of a vector's children.
RECURSIVE SumOver(_, _)
SumOver(vec, ls) ==
    IF ls = {} THEN 0
    ELSE LET l == CHOOSE x \in ls : TRUE
         IN  vec[l] + SumOver(vec, ls \ {l})

C19_ObservationPerCall ==
    /\ DOMAIN requestDurations \subseteq {c.TurfApiEndpoint}
    /\ pollerPc = "sleep" =>
          /\ Value(requestDurations, c.TurfApiEndpoint)
                = SumOver(turfgameApiRequestsTotal, DOMAIN turfgameApiRequestsTotal)
          /\ Value(requestDurations, c.TurfApiEndpoint) = Len(sleeps) + 1
          /\ Value(requestDurations, c.TurfApiEndpoint) = Len(requests)

\* The Poller sleeps in its third cycle, after a failed call, a 200 and a
\* 500: three observations, three labels of the counter.
C19_Witness ==
    /\ pollerPc = "sleep"
    /\ Value(requestDurations, c.TurfApiEndpoint) = 3
    /\ Value(turfgameApiRequestsTotal, "error") = 1
    /\ Value(turfgameApiRequestsTotal, "200") = 1
    /\ Value(turfgameApiRequestsTotal, "500") = 1

(***************************************************************************)
(* C20.  A pass over a batch changes only the gauge children labelled with *)
(* the names of the players whose records the pass published: the children *)
(* of every other player are there as they were before the pass, with the  *)
(* same values, and no child of another player has appeared.               *)
(***************************************************************************)
\* The player a child of vector v with label l belongs to.
PlayerOf(v, l) == IF v = "region" THEN l[1] ELSE l

NamesOf(s) == { s[k].Name : k \in 1..Len(s) }

C20_AbsentPlayersKeep ==
    pubPc \in {"recv", "loop"} =>
        \A v \in DOMAIN Gauges :
            /\ \A l \in DOMAIN prevGauges[v] :
                  PlayerOf(v, l) \notin NamesOf(seen) =>
                      l \in DOMAIN Gauges[v] /\ Gauges[v][l] = prevGauges[v][l]
            /\ \A l \in DOMAIN Gauges[v] \ DOMAIN prevGauges[v] :
                  PlayerOf(v, l) \in NamesOf(seen)

\* A batch with alice alone has been published after one with alice and
\* bob: alice's gauge moved, bob's is where the earlier batch left it.
C20_Witness ==
    /\ pubPc = "recv"
    /\ NamesOf(seen) = {"alice"}
    /\ "bob" \in DOMAIN prevGauges.roundPoints
    /\ Value(roundPoints, "bob") = 300
    /\ Value(prevGauges.roundPoints, "alice") = 500
    /\ Value(roundPoints, "alice") = 510
    /\ <<"bob", "Stockholm">> \in DOMAIN region

====
